---- MODULE Spec2Model ----
(***************************************************************************)
(* Model of api/generate-images.ts: the two annotation renders              *)
(* (generateAnimalImage, generateBrainImage), the shared label helper       *)
(* drawTextWithShadow and the Vercel request handler that joins the two     *)
(* renders with Promise.all.                                                *)
(*                                                                         *)
(* A dataset (the `data` argument, a JSON object of the request body) is a  *)
(* sequence of properties [name, value] in the object's own key order.      *)
(* Keys are non-index strings, so Object.entries yields them in that order; *)
(* values are integers.  A key may be one of the shape's names, a name no   *)
(* object has, or a name every object inherits from Object.prototype.       *)
(*                                                                         *)
(* JavaScript runs one task at a time: the code between two awaits is a     *)
(* run-to-completion segment.  `running` names the render whose segment    *)
(* after `await loadImage` is executing; the segment is split into steps   *)
(* (selection loop, one step per label, encoding) that nothing else can     *)
(* interleave with.                                                         *)
(***************************************************************************)
EXTENDS Integers, Sequences, FiniteSets, TLC

\* ---------------------------------------------------------------- bounds
\* The datasets enumerated for a single render take their values among -1
\* and the multiples 0, PercentStep, ..., MaxVal * PercentStep.
MaxVal == 1
PercentStep == 50

\* ------------------------------------------------------- program constants
\* let maxPercentage = -1
InitialMax == -1
normalFontSize == 36
highestFontSize == 40

fontName == "\"Arial Bold\""
normalColor == "#FFFFFF"
highestColor == "#FFFF00"
BASE_IMAGE_BRAIN_URL == "https://i.postimg.cc/LXMYjwtX/Inserir-um-t-tulo-6.png"
BASE_IMAGE_ANIMALS_URL == "https://i.postimg.cc/6QDYdjPb/Design-sem-nome-17.png"

Tasks == {"animal", "brain"}
Other(r) == IF r = "animal" THEN "brain" ELSE "animal"
BaseUrl(r) == IF r = "animal" THEN BASE_IMAGE_ANIMALS_URL ELSE BASE_IMAGE_BRAIN_URL

\* highestAnimalName / highestBrainName before any entry is selected
Null == "null"

\* The names of each shape, in the order the interfaces declare them.
DeclaredNames(r) ==
  IF r = "animal" THEN <<"lobo", "aguia", "tubarao", "gato">>
                  ELSE <<"pensante", "atuante", "razao", "emocao">>

\* const positions = { ... } of each render
Positions(r) ==
  IF r = "animal"
  THEN [lobo    |-> [x |-> 250, y |-> 680],
        aguia   |-> [x |-> 750, y |-> 680],
        tubarao |-> [x |-> 250, y |-> 970],
        gato    |-> [x |-> 750, y |-> 970]]
  ELSE [razao    |-> [x |-> 270, y |-> 480],
        emocao   |-> [x |-> 740, y |-> 480],
        pensante |-> [x |-> 500, y |-> 310],
        atuante  |-> [x |-> 500, y |-> 710]]

\* The keys that name a property positions inherits from Object.prototype
\* (Object.getOwnPropertyNames(Object.prototype)): positions[name] is then
\* that inherited value, not undefined.
InheritedName == "toString"
InheritedNames ==
  {InheritedName, "constructor", "valueOf", "hasOwnProperty", "__proto__",
   "isPrototypeOf", "propertyIsEnumerable", "toLocaleString",
   "__defineGetter__", "__defineSetter__", "__lookupGetter__", "__lookupSetter__"}

\* JavaScript values of the coordinates handed to fillText.
Num(n) == [type |-> "number", value |-> n]
Undefined == [type |-> "undefined"]

\* positions[name]: the table's entry, an inherited value that has neither x
\* nor y, or undefined.
PositionLookup(r, name) ==
  IF name \in DOMAIN Positions(r)
  THEN [found |-> TRUE, x |-> Num(Positions(r)[name].x), y |-> Num(Positions(r)[name].y)]
  ELSE IF name \in InheritedNames
       THEN [found |-> TRUE, x |-> Undefined, y |-> Undefined]
       ELSE [found |-> FALSE, x |-> Undefined, y |-> Undefined]

\* Object.entries(data): [name, value] pairs in the object's key order.
ObjectEntries(data) == [i \in 1..Len(data) |-> <<data[i].name, data[i].value>>]

\* The body of the selection loop, from entry i on.
RECURSIVE SelectLoop(_, _, _, _)
SelectLoop(es, i, maxPercentage, highestName) ==
  IF i > Len(es) THEN [max |-> maxPercentage, name |-> highestName]
  ELSE IF es[i][2] > maxPercentage
       THEN SelectLoop(es, i + 1, es[i][2], es[i][1])
       ELSE SelectLoop(es, i + 1, maxPercentage, highestName)

\* The loop with `>=` in place of `>`: the last of the tied entries wins.
RECURSIVE SelectLoopLastWins(_, _, _, _)
SelectLoopLastWins(es, i, maxPercentage, highestName) ==
  IF i > Len(es) THEN [max |-> maxPercentage, name |-> highestName]
  ELSE IF es[i][2] >= maxPercentage
       THEN SelectLoopLastWins(es, i + 1, es[i][2], es[i][1])
       ELSE SelectLoopLastWins(es, i + 1, maxPercentage, highestName)

HighestNameLastWins(es) == SelectLoopLastWins(es, 1, InitialMax, Null).name

\* highestAnimalName / highestBrainName after the loop.
HighestName(es) == SelectLoop(es, 1, InitialMax, Null).name

\* `${fontSize}px ${fontName}`
FontOf(isHighest) ==
  ToString(IF isHighest THEN highestFontSize ELSE normalFontSize) \o "px " \o fontName

\* isHighest ? highestColor : normalColor
ColorOf(isHighest) == IF isHighest THEN highestColor ELSE normalColor

\* `${percentage}%`
LabelText(percentage) == ToString(percentage) \o "%"

\* canvas.getContext('2d') of a fresh canvas
NewContext ==
  [font |-> "10px sans-serif", fillStyle |-> "#000000",
   textAlign |-> "start", textBaseline |-> "alphabetic",
   shadowColor |-> "rgba(0, 0, 0, 0)", shadowBlur |-> 0,
   shadowOffsetX |-> 0, shadowOffsetY |-> 0]

\* ctx.fillText(text, x, y): what is painted, with the state it is painted under.
FillText(c, text, x, y) ==
  [text |-> text, x |-> x, y |-> y, font |-> c.font, fillStyle |-> c.fillStyle,
   textAlign |-> c.textAlign, textBaseline |-> c.textBaseline,
   shadowColor |-> c.shadowColor, shadowBlur |-> c.shadowBlur,
   shadowOffsetX |-> c.shadowOffsetX, shadowOffsetY |-> c.shadowOffsetY]

\* drawTextWithShadow without the two assignments after fillText.
drawTextWithShadowNoReset(c, text, x, y, font, fillStyle, textAlign, textBaseline) ==
  LET c1 == [c EXCEPT !.font = font, !.fillStyle = fillStyle,
                      !.textAlign = textAlign, !.textBaseline = textBaseline]
      c2 == [c1 EXCEPT !.shadowColor = "rgba(0, 0, 0, 0.8)", !.shadowBlur = 10,
                       !.shadowOffsetX = 0, !.shadowOffsetY = 0]
  IN [ctx |-> c2, painted |-> FillText(c2, text, x, y)]

\* drawTextWithShadow: the context it leaves and the label it paints.
drawTextWithShadow(c, text, x, y, font, fillStyle, textAlign, textBaseline) ==
  LET c1 == [c EXCEPT !.font = font, !.fillStyle = fillStyle,
                      !.textAlign = textAlign, !.textBaseline = textBaseline]
      c2 == [c1 EXCEPT !.shadowColor = "rgba(0, 0, 0, 0.8)", !.shadowBlur = 10,
                       !.shadowOffsetX = 0, !.shadowOffsetY = 0]
      c3 == [c2 EXCEPT !.shadowColor = "transparent", !.shadowBlur = 0]
  IN [ctx |-> c3, painted |-> FillText(c2, text, x, y)]

\* throw new Error(`Error during <which> image processing: ${errorMessage}`)
WrapError(r, errorMessage) ==
  "Error during " \o r \o " image processing: " \o errorMessage

\* The message of the rejection of loadImage (set by the canvas library).
LoadErrorMessage == "loadImage failed"
\* The TypeError of `const { x, y } = positions[name]` when the name has no position.
NoPositionMessage == "Cannot destructure property 'x' of 'positions[name]' as it is undefined."
\* The TypeError of `const { animalData, brainData } = req.body` when
\* req.body is undefined or null: the message names which of the two it is.
NoBodyMessage(body) ==
  "Cannot destructure property 'animalData' of 'req.body' as it is " \o body \o "."

\* canvas.toDataURL('image/png'): the base image with the labels painted on it.
ToDataURL(r, labels) == [mime |-> "image/png", base |-> BaseUrl(r), labels |-> labels]


\* ------------------------------------------------------------------ state
VARIABLES
  req,        \* the request: method and body
  hpc,        \* where the handler is: "nocall", "entry", "awaiting", "returned"
  responses,  \* the responses sent on res, in order
  joined,     \* the promise of Promise.all: state and rejection reason
  rpc,        \* where each render is: "idle", "loading", "select", "draw", "done", "failed"
  rdata,      \* the `data` argument of each render
  entries,    \* animalEntries / brainEntries
  highest,    \* highestAnimalName / highestBrainName
  idx,        \* position of the draw loop in the entries
  ctx,        \* the 2d context of each render's canvas
  drawn,      \* the labels painted on each canvas, in order
  result,     \* the data URL each render returned (<<>> while none)
  error,      \* the message of the Error each render threw ("" while none)
  running,    \* the render whose synchronous segment is executing, or "none"
  starts      \* how many times each render was called

vars == <<req, hpc, responses, joined, rpc, rdata, entries, highest, idx, ctx,
          drawn, result, error, running, starts>>

handlerVars == <<req, hpc, responses>>

\* A key that is in no position table and is not inherited.
UnknownName == "outro"

Range(s) == {s[i] : i \in 1..Len(s)}
NamesOf(data) == {data[i].name : i \in 1..Len(data)}

\* --------------------------------------------------------------- inputs
Values == {InitialMax} \cup {k * PercentStep : k \in 0..MaxVal}

NameUniverse(r) == Range(DeclaredNames(r)) \cup {UnknownName, InheritedName}

\* Every object with at most as many keys as the shape has names, the keys
\* drawn from the shape's names, the unknown key and the inherited key, in
\* every key order.
AllDatasets(r) ==
  UNION {{d \in [1..n -> [name : NameUniverse(r), value : Values]] :
            \A i, j \in 1..n : d[i].name = d[j].name => i = j}
         : n \in 0..Len(DeclaredNames(r))}

Prop(n, v) == [name |-> n, value |-> v]

\* The datasets of the requests: the spec's scenarios A, B and C, and around
\* them a reordered, an all-negative, an unknown-key, an inherited-key and
\* an empty object.
RequestDatasets(r) ==
  IF r = "animal"
  THEN {<<Prop("lobo", 40), Prop("aguia", 55), Prop("tubarao", 55), Prop("gato", 10)>>,
        <<Prop("gato", 55), Prop("tubarao", 10), Prop("aguia", 55), Prop("lobo", 40)>>,
        <<Prop("lobo", 40), Prop("aguia", 55), Prop("tubarao", 55)>>,
        <<Prop("lobo", -1), Prop("aguia", -1), Prop("tubarao", -2), Prop("gato", -5)>>,
        <<Prop("lobo", 100), Prop(UnknownName, 7)>>,
        <<Prop("lobo", 0), Prop("constructor", 50), Prop("gato", 0)>>,
        <<>>}
  ELSE {<<Prop("pensante", 20), Prop("atuante", 30), Prop("razao", 25), Prop("emocao", 25)>>,
        <<Prop("emocao", 25), Prop("razao", 25), Prop("atuante", 5), Prop("pensante", 25)>>,
        <<Prop("pensante", 20), Prop("atuante", 30), Prop("razao", 25)>>,
        <<Prop("pensante", -1), Prop("atuante", -3), Prop("razao", -1), Prop("emocao", -1)>>,
        <<Prop(UnknownName, 7), Prop("razao", 100)>>,
        <<Prop("__proto__", 7), Prop("razao", 100)>>,
        <<>>}

\* A field of the body: absent (undefined, null: falsy) or an object.
Absent == [present |-> FALSE, props |-> <<>>]
Field(d) == [present |-> TRUE, props |-> d]
BodyFields(r) == {Absent} \cup {Field(d) : d \in RequestDatasets(r)}

Requests ==
  {[method |-> m, body |-> b, animalData |-> Absent, brainData |-> Absent]
     : m \in {"POST", "GET"}, b \in {"undefined", "null"}}
  \cup
  [method : {"POST", "GET"}, body : {"object"},
   animalData : BodyFields("animal"), brainData : BodyFields("brain")]

NoRequest == [method |-> "none", body |-> "undefined", animalData |-> Absent, brainData |-> Absent]

Pending == [state |-> "pending", reason |-> ""]

\* ----------------------------------------------------------------- Init
RenderIdle ==
  /\ entries = [r \in Tasks |-> <<>>]
  /\ highest = [r \in Tasks |-> Null]
  /\ idx = [r \in Tasks |-> 0]
  /\ ctx = [r \in Tasks |-> NewContext]
  /\ drawn = [r \in Tasks |-> <<>>]
  /\ result = [r \in Tasks |-> <<>>]
  /\ error = [r \in Tasks |-> ""]
  /\ running = "none"

\* A request arrives at the handler.
Init ==
  /\ req \in Requests
  /\ hpc = "entry"
  /\ responses = <<>>
  /\ joined = Pending
  /\ rpc = [r \in Tasks |-> "idle"]
  /\ rdata = [r \in Tasks |-> <<>>]
  /\ starts = [r \in Tasks |-> 0]
  /\ RenderIdle

\* One render is called on its own with any dataset and awaits loadImage.
InitRender ==
  /\ req = NoRequest
  /\ hpc = "nocall"
  /\ responses = <<>>
  /\ joined = Pending
  /\ \E r \in Tasks : \E d \in AllDatasets(r) :
       /\ rpc = [t \in Tasks |-> IF t = r THEN "loading" ELSE "idle"]
       /\ rdata = [t \in Tasks |-> IF t = r THEN d ELSE <<>>]
       /\ starts = [t \in Tasks |-> IF t = r THEN 1 ELSE 0]
  /\ RenderIdle

\* The values the state takes.
TypeOK ==
  /\ req \in Requests \cup {NoRequest}
  /\ hpc \in {"nocall", "entry", "awaiting", "returned"}
  /\ \A i \in 1..Len(responses) : responses[i].status \in Nat
  /\ joined.state \in {"pending", "fulfilled", "rejected"}
  /\ \A r \in Tasks :
       /\ rpc[r] \in {"idle", "loading", "select", "draw", "done", "failed"}
       /\ entries[r] \in {<<>>, ObjectEntries(rdata[r])}
       /\ highest[r] \in NamesOf(rdata[r]) \cup {Null}
       /\ idx[r] \in 0..(Len(entries[r]) + 1)
       /\ Len(drawn[r]) <= Len(entries[r])
       /\ Len(result[r]) <= 1
       /\ (rpc[r] = "done") <=> (result[r] # <<>>)
       /\ (rpc[r] = "failed") <=> (error[r] # "")
       /\ starts[r] \in Nat
  /\ running \in Tasks \cup {"none"}
  /\ running # "none" => rpc[running] \in {"select", "draw"}

\* ------------------------------------------------------------- the join
\* Promise.all after render r settles: rejected with the first rejection,
\* fulfilled when every render has fulfilled.
JoinAfter(r, failed, message) ==
  IF hpc # "awaiting" \/ joined.state # "pending" THEN joined
  ELSE IF failed THEN [state |-> "rejected", reason |-> message]
  ELSE IF rpc[Other(r)] = "done" THEN [state |-> "fulfilled", reason |-> ""]
  ELSE joined

\* ---------------------------------------------------------- the renders
\* await loadImage(baseImageUrl) rejects: the catch wraps and rethrows.
LoadImageFail(r) ==
  /\ rpc[r] = "loading"
  /\ running = "none"
  /\ rpc' = [rpc EXCEPT ![r] = "failed"]
  /\ error' = [error EXCEPT ![r] = WrapError(r, LoadErrorMessage)]
  /\ joined' = JoinAfter(r, TRUE, WrapError(r, LoadErrorMessage))
  /\ UNCHANGED <<handlerVars, rdata, entries, highest, idx, ctx, drawn, result,
                 running, starts>>

\* await loadImage resolves: createCanvas, getContext, drawImage, Object.entries.
LoadImageOk(r) ==
  /\ rpc[r] = "loading"
  /\ running = "none"
  /\ running' = r
  /\ ctx' = [ctx EXCEPT ![r] = NewContext]
  /\ drawn' = [drawn EXCEPT ![r] = <<>>]
  /\ entries' = [entries EXCEPT ![r] = ObjectEntries(rdata[r])]
  /\ rpc' = [rpc EXCEPT ![r] = "select"]
  /\ UNCHANGED <<handlerVars, joined, rdata, highest, idx, result, error, starts>>

\* The loop that finds the entry with the highest percentage.
FindHighest(r) ==
  /\ rpc[r] = "select"
  /\ running = r
  /\ highest' = [highest EXCEPT ![r] = HighestName(entries[r])]
  /\ idx' = [idx EXCEPT ![r] = 1]
  /\ rpc' = [rpc EXCEPT ![r] = "draw"]
  /\ UNCHANGED <<handlerVars, joined, rdata, entries, ctx, drawn, result, error,
                 running, starts>>

\* One iteration of the draw loop on an entry for which positions[name] is
\* not undefined (x and y are undefined when the value is an inherited one).
DrawLabel(r) ==
  /\ rpc[r] = "draw"
  /\ running = r
  /\ idx[r] <= Len(entries[r])
  /\ LET name == entries[r][idx[r]][1]
         percentage == entries[r][idx[r]][2]
         isHighest == name = highest[r]
         pos == PositionLookup(r, name)
     IN /\ pos.found
        /\ LET d == drawTextWithShadow(ctx[r], LabelText(percentage),
                                       pos.x, pos.y,
                                       FontOf(isHighest), ColorOf(isHighest),
                                       "center", "middle")
           IN /\ ctx' = [ctx EXCEPT ![r] = d.ctx]
              /\ drawn' = [drawn EXCEPT ![r] = Append(@, d.painted)]
  /\ idx' = [idx EXCEPT ![r] = @ + 1]
  /\ UNCHANGED <<handlerVars, joined, rpc, rdata, entries, highest, result, error,
                 running, starts>>

\* One iteration of the draw loop on an entry for which positions[name] is
\* undefined: destructuring undefined throws, the catch wraps and rethrows.
DrawLabelThrows(r) ==
  /\ rpc[r] = "draw"
  /\ running = r
  /\ idx[r] <= Len(entries[r])
  /\ ~PositionLookup(r, entries[r][idx[r]][1]).found
  /\ rpc' = [rpc EXCEPT ![r] = "failed"]
  /\ error' = [error EXCEPT ![r] = WrapError(r, NoPositionMessage)]
  /\ joined' = JoinAfter(r, TRUE, WrapError(r, NoPositionMessage))
  /\ running' = "none"
  /\ UNCHANGED <<handlerVars, rdata, entries, highest, idx, ctx, drawn, result, starts>>

\* The draw loop is over: return canvas.toDataURL('image/png').
Encode(r) ==
  /\ rpc[r] = "draw"
  /\ running = r
  /\ idx[r] > Len(entries[r])
  /\ result' = [result EXCEPT ![r] = <<ToDataURL(r, drawn[r])>>]
  /\ rpc' = [rpc EXCEPT ![r] = "done"]
  /\ joined' = JoinAfter(r, FALSE, "")
  /\ running' = "none"
  /\ UNCHANGED <<handlerVars, rdata, entries, highest, idx, ctx, drawn, error, starts>>

RenderStep(r) ==
  \/ LoadImageFail(r)
  \/ LoadImageOk(r)
  \/ FindHighest(r)
  \/ DrawLabel(r)
  \/ DrawLabelThrows(r)
  \/ Encode(r)

NextRender == \E r \in Tasks : RenderStep(r)

SpecRender == InitRender /\ [][NextRender]_vars

\* ---------------------------------------------------------- the handler
renderVars == <<rdata, entries, highest, idx, ctx, drawn, result, error, running>>

Respond(status, body) == Append(responses, [status |-> status, body |-> body])

\* res.status(500).json({ error, details }) of the catch block
FailureBody(message) == [error |-> "Failed to generate images.", details |-> message]

\* if (req.method !== 'POST') return res.status(405).json(...)
Reject405 ==
  /\ hpc = "entry"
  /\ req.method # "POST"
  /\ responses' = Respond(405, [error |-> "Method Not Allowed"])
  /\ hpc' = "returned"
  /\ UNCHANGED <<req, joined, rpc, starts, renderVars>>

\* POST whose req.body is undefined or null: destructuring it throws inside
\* the try, the catch answers 500.
BodyThrows ==
  /\ hpc = "entry"
  /\ req.method = "POST"
  /\ req.body # "object"
  /\ responses' = Respond(500, FailureBody(NoBodyMessage(req.body)))
  /\ hpc' = "returned"
  /\ UNCHANGED <<req, joined, rpc, starts, renderVars>>

\* if (!animalData || !brainData) return res.status(400).json(...)
Reject400 ==
  /\ hpc = "entry"
  /\ req.method = "POST"
  /\ req.body = "object"
  /\ ~req.animalData.present \/ ~req.brainData.present
  /\ responses' = Respond(400,
       [error |-> "Request body must contain \"animalData\" and \"brainData\" objects."])
  /\ hpc' = "returned"
  /\ UNCHANGED <<req, joined, rpc, starts, renderVars>>

\* The renders awaited one after the other: only the first is called here.
StartRendersSequential ==
  /\ hpc = "entry"
  /\ req.method = "POST"
  /\ req.body = "object"
  /\ req.animalData.present /\ req.brainData.present
  /\ rpc' = [rpc EXCEPT !["animal"] = "loading"]
  /\ rdata' = [rdata EXCEPT !["animal"] = req.animalData.props]
  /\ starts' = [starts EXCEPT !["animal"] = @ + 1]
  /\ joined' = Pending
  /\ hpc' = "awaiting"
  /\ UNCHANGED <<req, responses, entries, highest, idx, ctx, drawn, result, error,
                 running>>

\* Both renders are called, each runs up to its await loadImage, and the
\* handler awaits Promise.all of the two promises.
StartRenders ==
  /\ hpc = "entry"
  /\ req.method = "POST"
  /\ req.body = "object"
  /\ req.animalData.present /\ req.brainData.present
  /\ rpc' = [r \in Tasks |-> "loading"]
  /\ rdata' = [r \in Tasks |-> IF r = "animal" THEN req.animalData.props
                                               ELSE req.brainData.props]
  /\ starts' = [r \in Tasks |-> starts[r] + 1]
  /\ joined' = Pending
  /\ hpc' = "awaiting"
  /\ UNCHANGED <<req, responses, entries, highest, idx, ctx, drawn, result, error,
                 running>>

\* Promise.all fulfilled: res.status(200).json({ animalImage, brainImage })
Respond200 ==
  /\ hpc = "awaiting"
  /\ running = "none"
  /\ joined.state = "fulfilled"
  /\ responses' = Respond(200, [animalImage |-> result["animal"][1],
                                brainImage |-> result["brain"][1]])
  /\ hpc' = "returned"
  /\ UNCHANGED <<req, joined, rpc, starts, renderVars>>

\* A catch that hands out the animal image when that render succeeded.
Respond500Partial ==
  /\ hpc = "awaiting"
  /\ running = "none"
  /\ joined.state = "rejected"
  /\ responses' = Respond(500,
       IF result["animal"] # <<>>
       THEN [error |-> "Failed to generate images.", details |-> joined.reason,
             animalImage |-> result["animal"][1]]
       ELSE FailureBody(joined.reason))
  /\ hpc' = "returned"
  /\ UNCHANGED <<req, joined, rpc, starts, renderVars>>

\* A catch that calls both renders again instead of answering.
Respond500Retry ==
  /\ hpc = "awaiting"
  /\ running = "none"
  /\ joined.state = "rejected"
  /\ rpc' = [r \in Tasks |-> "loading"]
  /\ starts' = [r \in Tasks |-> starts[r] + 1]
  /\ joined' = Pending
  /\ UNCHANGED <<req, hpc, responses, renderVars>>

\* Promise.all rejected: the catch answers 500 with the first rejection's message.
Respond500 ==
  /\ hpc = "awaiting"
  /\ running = "none"
  /\ joined.state = "rejected"
  /\ responses' = Respond(500, FailureBody(joined.reason))
  /\ hpc' = "returned"
  /\ UNCHANGED <<req, joined, rpc, starts, renderVars>>

Next ==
  \/ Reject405
  \/ BodyThrows
  \/ Reject400
  \/ StartRenders
  \/ Respond200
  \/ Respond500
  \/ \E r \in Tasks : RenderStep(r)

Spec == Init /\ [][Next]_vars


\* ------------------------------------------------------ claims: helpers
ValuesOf(data) == {data[i].value : i \in 1..Len(data)}
MaxValue(data) == CHOOSE v \in ValuesOf(data) : \A w \in ValuesOf(data) : v >= w
\* The positions of the entries that hold the maximum value.
Tied(data) == {i \in 1..Len(data) : data[i].value = MaxValue(data)}
FirstInKeyOrder(data) ==
  data[CHOOSE i \in Tied(data) : \A j \in Tied(data) : i <= j].name
DeclaredIndex(r, n) == CHOOSE k \in 1..Len(DeclaredNames(r)) : DeclaredNames(r)[k] = n
FirstInDeclaredOrder(r, data) ==
  LET tiedNames == {data[i].name : i \in Tied(data)}
  IN CHOOSE n \in tiedNames :
       \A m \in tiedNames : DeclaredIndex(r, n) <= DeclaredIndex(r, m)
OnlyDeclaredNames(r) == NamesOf(rdata[r]) \subseteq Range(DeclaredNames(r))
MissingNames(r) == Range(DeclaredNames(r)) \ NamesOf(rdata[r])
\* The selection loop of render r has run.
Selected(r) == idx[r] >= 1

Emphasized(l) == l.font = "40px \"Arial Bold\"" /\ l.fillStyle = "#FFFF00"
NormalStyle(l) == l.font = "36px \"Arial Bold\"" /\ l.fillStyle = "#FFFFFF"

DigitChars == <<"0", "1", "2", "3", "4", "5", "6", "7", "8", "9">>
RECURSIVE DecimalOfNat(_)
DecimalOfNat(n) ==
  IF n < 10 THEN DigitChars[n + 1]
  ELSE DecimalOfNat(n \div 10) \o DigitChars[(n % 10) + 1]
\* The decimal numeral of an integer.
Decimal(n) == IF n < 0 THEN "-" \o DecimalOfNat(0 - n) ELSE DecimalOfNat(n)

Responded == Len(responses) >= 1
RendersCalled == \E r \in Tasks : starts[r] > 0

\* ------------------------------------------------------------------- C1
\* C1: for every dataset with at least one entry, of any integer values, the
\* selection loop ends with a dominant name that is a key of the dataset
\* (never null) and whose value is >= every value of the dataset.
C1_DominantIsMaximum ==
  \A r \in Tasks :
    (Selected(r) /\ Len(rdata[r]) >= 1) =>
      \E k \in 1..Len(rdata[r]) :
        /\ highest[r] = rdata[r][k].name
        /\ \A i \in 1..Len(rdata[r]) : rdata[r][k].value >= rdata[r][i].value

\* ------------------------------------------------------------------- C2
\* C2 as stated: when two or more entries share the maximum value, the
\* dominant name is the tied entry that is first in the shape's declared
\* name order, whatever the key order of the dataset received.  (Stated for
\* the datasets in which a name is selected; the other ones are C1's.)
C2_TieFirstInDeclaredOrder ==
  \A r \in Tasks :
    (Selected(r) /\ OnlyDeclaredNames(r) /\ Cardinality(Tied(rdata[r])) >= 2
       /\ highest[r] # Null) =>
      highest[r] = FirstInDeclaredOrder(r, rdata[r])

\* C2 as amended: when two or more entries share the maximum value, the
\* dominant name is the tied entry that is first in the key order of the
\* dataset received; no name is selected when that maximum is not above the
\* initial -1.
C2_TieFirstInKeyOrder ==
  \A r \in Tasks :
    (Selected(r) /\ Cardinality(Tied(rdata[r])) >= 2) =>
      highest[r] = IF MaxValue(rdata[r]) > InitialMax
                   THEN FirstInKeyOrder(rdata[r])
                   ELSE Null

\* A tie at the maximum whose first entry in key order is not the first one
\* in declared order, after the selection.
C2_Witness ==
  \E r \in Tasks :
    /\ Selected(r) /\ OnlyDeclaredNames(r) /\ Cardinality(Tied(rdata[r])) >= 2
    /\ MaxValue(rdata[r]) > InitialMax
    /\ highest[r] = FirstInKeyOrder(rdata[r])
    /\ FirstInKeyOrder(rdata[r]) # FirstInDeclaredOrder(r, rdata[r])

\* ------------------------------------------------------------------- C3
\* C3: in every render that completes (on a dataset with an entry), exactly
\* one drawn label has the emphasized style (40px, #FFFF00), every other one
\* the normal style (36px, #FFFFFF), and when all values are equal the
\* emphasized label is the first one.
C3_ExactlyOneEmphasized ==
  \A r \in Tasks :
    (rpc[r] = "done" /\ Len(rdata[r]) >= 1) =>
      /\ Cardinality({i \in 1..Len(drawn[r]) : Emphasized(drawn[r][i])}) = 1
      /\ \A i \in 1..Len(drawn[r]) : Emphasized(drawn[r][i]) \/ NormalStyle(drawn[r][i])
      /\ Cardinality(ValuesOf(rdata[r])) = 1 => Emphasized(drawn[r][1])

\* ------------------------------------------------------------------- C4
\* C4: a render called with a dataset that lacks one of the shape's required
\* names ends in an error and produces no image.
C4_MissingNameFails ==
  \A r \in Tasks :
    (rpc[r] # "idle" /\ Cardinality(MissingNames(r)) = 1) =>
      /\ rpc[r] # "done"
      /\ result[r] = <<>>
      /\ \A i \in 1..Len(responses) : responses[i].status # 200

\* ------------------------------------------------------------------- C5
\* C5: for a request that reaches the two renders, once the handler has
\* answered: if either render failed the response is a 500 that holds
\* neither animalImage nor brainImage, even when the other render succeeded;
\* a 200 is sent only when both renders succeeded and carries both images.
C5_AllOrNothing ==
  \A i \in 1..Len(responses) :
    LET resp == responses[i] IN
      /\ (RendersCalled /\ \E r \in Tasks : rpc[r] = "failed") =>
           /\ resp.status = 500
           /\ "animalImage" \notin DOMAIN resp.body
           /\ "brainImage" \notin DOMAIN resp.body
      /\ resp.status = 200 =>
           /\ \A r \in Tasks : rpc[r] = "done"
           /\ resp.body.animalImage = result["animal"][1]
           /\ resp.body.brainImage = result["brain"][1]
      /\ (RendersCalled /\ \A r \in Tasks : rpc[r] = "done") => resp.status = 200

\* The animal render succeeded, the brain render failed, the handler has answered.
C5_Witness ==
  /\ Responded
  /\ rpc["animal"] = "done" /\ result["animal"] # <<>>
  /\ rpc["brain"] = "failed"
  /\ responses[1].status = 500

\* ------------------------------------------------------------------- C6
\* C6 as stated: the handler sends its response, success or failure, only
\* after both renders have completed.
C6_RespondsAfterBoth ==
  (Responded /\ RendersCalled) => \A r \in Tasks : rpc[r] \in {"done", "failed"}

\* C6 as amended: the handler starts both renders together, before either
\* completes; it sends the 200 only after both renders have completed, and it
\* sends the 500 once one render has failed, without waiting for the other.
C6_JoinBeforeResponse ==
  /\ (\A r \in Tasks : rpc[r] = "idle") \/ (\A r \in Tasks : rpc[r] # "idle")
  /\ \A r \in Tasks : starts[r] = starts[Other(r)]
  /\ (Responded /\ RendersCalled) =>
       IF responses[1].status = 200
       THEN \A r \in Tasks : rpc[r] = "done"
       ELSE \E r \in Tasks : rpc[r] = "failed"

\* The failure response has been sent while the other render still awaits
\* its base image.
C6_Witness ==
  /\ Responded /\ RendersCalled
  /\ responses[1].status = 500
  /\ \E r \in Tasks : rpc[r] = "failed" /\ rpc[Other(r)] = "loading"

\* ------------------------------------------------------------------- C7
\* A dataset is well formed when its names are exactly the shape's names.
WellFormed(r, field) ==
  field.present /\ NamesOf(field.props) = Range(DeclaredNames(r))
\* C7: a request that is not a POST is answered 405 and a request whose
\* animalData or brainData is missing or malformed is answered 400, and for
\* such a request neither render is started.  (Stated for the requests that
\* carry a body.)
C7_RejectsBeforeRenders ==
  LET bad == ~WellFormed("animal", req.animalData) \/ ~WellFormed("brain", req.brainData)
  IN /\ (req.method # "POST" \/ bad) => \A r \in Tasks : starts[r] = 0 /\ rpc[r] = "idle"
     /\ (Responded /\ req.method # "POST") => responses[1].status = 405
     /\ (Responded /\ req.method = "POST" /\ req.body = "object" /\ bad) =>
          responses[1].status = 400

\* ------------------------------------------------------------------- C8
\* C8: in a render that completes, the draw loop has drawn exactly one label
\* per entry of the dataset, in the dataset's order, with the text the
\* decimal value followed by "%", at the position the table fixes for the name.
C8_OneLabelPerEntry ==
  \A r \in Tasks :
    rpc[r] = "done" =>
      /\ Len(drawn[r]) = Len(rdata[r])
      /\ result[r][1].labels = drawn[r]
      /\ \A i \in 1..Len(rdata[r]) :
           /\ drawn[r][i].text = Decimal(rdata[r][i].value) \o "%"
           /\ rdata[r][i].name \in DOMAIN Positions(r)
           /\ drawn[r][i].x = Num(Positions(r)[rdata[r][i].name].x)
           /\ drawn[r][i].y = Num(Positions(r)[rdata[r][i].name].y)
           /\ drawn[r][i].textAlign = "center"
           /\ drawn[r][i].textBaseline = "middle"

\* ------------------------------------------------------------------- C9
NoShadow(c) == c.shadowColor = "transparent" /\ c.shadowBlur = 0
\* C9: every label is painted under the shadow rgba(0,0,0,0.8), blur 10,
\* offsets 0,0, and once a label has been drawn the context has no shadow:
\* between any two label draws and after the last one.
C9_ShadowPerLabel ==
  \A r \in Tasks :
    /\ \A i \in 1..Len(drawn[r]) :
         /\ drawn[r][i].shadowColor = "rgba(0, 0, 0, 0.8)"
         /\ drawn[r][i].shadowBlur = 10
         /\ drawn[r][i].shadowOffsetX = 0
         /\ drawn[r][i].shadowOffsetY = 0
    /\ Len(drawn[r]) >= 1 => NoShadow(ctx[r])

\* Between the second and the third label of a render.
C9_Witness ==
  \E r \in Tasks :
    /\ rpc[r] = "draw"
    /\ Len(drawn[r]) = 2
    /\ idx[r] = 3 /\ idx[r] <= Len(entries[r])
    /\ PositionLookup(r, entries[r][3][1]).found

\* ------------------------------------------------------------------ C10
\* C10: on every path through the handler exactly one response is sent, its
\* status among 405, 400, 200 and 500, and each render is started at most
\* once: never more than one response, one response exactly once the handler
\* has returned, and the handler has returned when nothing is left to run.
C10_ExactlyOneResponse ==
  /\ Len(responses) <= 1
  /\ hpc = "returned" <=> Len(responses) = 1
  /\ \A i \in 1..Len(responses) : responses[i].status \in {405, 400, 200, 500}
  /\ \A r \in Tasks : starts[r] <= 1
  /\ (~ENABLED Next) => Len(responses) = 1

\* Both renders failed and the handler has answered.
C10_Witness ==
  /\ \A r \in Tasks : rpc[r] = "failed" /\ starts[r] = 1
  /\ Len(responses) = 1
  /\ responses[1].status = 500

====
